---- MODULE Spec2Model ----
(***************************************************************************)
(* The /media-stream websocket handler of main.py: the ingestion loop of   *)
(* websocket_endpoint, the transcript callback on_message, and the reply   *)
(* coroutine process_and_reply, all sharing one asyncio event loop.        *)
(***************************************************************************)
EXTENDS Integers, Sequences, FiniteSets, TLC

\* ------------------------------------------------------------------ bounds
MaxInbound == 3        \* envelopes read by the ingestion loop in one session
MaxTranscripts == 2    \* transcript events delivered by the sink in one session
MaxChunks == 2         \* whole 160-byte chunks in a synthesized buffer
LiveInbound == 2       \* envelopes read in one session under LiveSpec

\* --------------------------------------------------------- program constants
chunk_size == 160      \* main.py:261
RiffHeader == 44       \* main.py:258
RiffMagic == 4         \* main.py:257 (audio_data[:4])

None == "None"
Absent == "absent"

StreamSids == {"MZ1", "MZ2"}

\* Inbound texts as receive_text() returns them.  json is FALSE for text that
\* json.loads rejects; a missing key is Absent.
Envelope(j, e, s, p) == [json |-> j, event |-> e, streamSid |-> s, payload |-> p]
StartEnv(s) == Envelope(TRUE, "start", s, Absent)
MediaEnv == Envelope(TRUE, "media", Absent, "b64")
StopEnv == Envelope(TRUE, "stop", Absent, Absent)
MarkEnv == Envelope(TRUE, "mark", Absent, Absent)
NotJson == Envelope(FALSE, Absent, Absent, Absent)
NoEventTag == Envelope(TRUE, Absent, Absent, Absent)
MediaNoPayload == Envelope(TRUE, "media", Absent, Absent)
StartNoSid == Envelope(TRUE, "start", Absent, Absent)

Envelopes ==
    {StartEnv(s) : s \in StreamSids}
        \cup {MediaEnv, StopEnv, MarkEnv, NotJson, NoEventTag, MediaNoPayload, StartNoSid}

\* Synthesized results of deepgram.speak: riff tells whether the bytes begin
\* with b'RIFF', len is the number of bytes.
LastChunk == 5         \* bytes left over after the whole chunks of the longest buffer
AudioLens == {0, RiffHeader, MaxChunks * chunk_size + LastChunk}
AudioBuffers == {b \in [riff : BOOLEAN, len : AudioLens] : b.riff => b.len >= RiffMagic}
SynthFail == [riff |-> FALSE, len |-> -1]
NoAudio == [riff |-> FALSE, len |-> -2]

Sentences == {"", "hello"}

VARIABLES
    hpc,            \* position of websocket_endpoint
    exitPath,       \* how control reached the finally block
    stream_sid,     \* the nonlocal stream_sid
    websocket,      \* the server side of the connection: "open" or "closed"
    peerGone,       \* the peer has dropped the connection
    dg_connection,  \* the live transcription client
    finishCount,    \* calls of dg_connection.finish() that completed
    sinkFrames,     \* audio frames passed to dg_connection.send
    received,       \* texts returned by receive_text, in order
    trans,          \* session states passed through, in order
    transcripts,    \* sentences handed to on_message, in order
    tasks,          \* tasks[k]: the process_and_reply coroutine of transcripts[k]
    out,            \* envelopes written by websocket.send_text, in order
    running,        \* the coroutine inside a blocking call on the loop thread
    pendingEarly    \* coroutines not yet begun whose transcript came before any start

vars == <<hpc, exitPath, stream_sid, websocket, peerGone, dg_connection, finishCount,
          sinkFrames, received, trans, transcripts, tasks, out, running, pendingEarly>>

\* ------------------------------------------------------------ session state
\* main.py keeps no state field: the session is AWAITING_START until the
\* first start envelope stores stream_sid, ACTIVE while the loop runs with a
\* stream_sid, and CLOSED once control has left the while loop.
SessionState ==
    IF hpc \in {"finally", "returned", "raised"} THEN "CLOSED"
    ELSE IF stream_sid = None THEN "AWAITING_START"
    ELSE "ACTIVE"

Last(s) == s[Len(s)]

Track == trans' = IF SessionState' # Last(trans) THEN Append(trans, SessionState') ELSE trans

Init ==
    /\ hpc = "entry"
    /\ exitPath = "none"
    /\ stream_sid = None
    /\ websocket = "open"
    /\ peerGone = FALSE
    /\ dg_connection = "unbound"
    /\ finishCount = 0
    /\ sinkFrames = 0
    /\ received = <<>>
    /\ trans = <<"AWAITING_START">>
    /\ transcripts = <<>>
    /\ tasks = <<>>
    /\ out = <<>>
    /\ running = 0
    /\ pendingEarly = {}

\* The event loop runs one coroutine at a time; a coroutine inside a
\* synchronous call keeps the loop thread until the call returns.
LoopFree == running = 0

\* ----------------------------------------------------- websocket_endpoint
\* Lines 297-322: create the live client, register on_message, start it.
OpenSink ==
    /\ hpc = "entry"
    /\ LoopFree
    /\ \E outcome \in {"ok", "start_false", "create_raises", "start_raises"} :
         /\ dg_connection' = CASE outcome = "ok" -> "started"
                               [] outcome = "create_raises" -> "unbound"
                               [] OTHER -> "created"
         /\ hpc' = IF outcome = "ok" THEN "loop" ELSE "finally"
         /\ exitPath' = CASE outcome = "ok" -> "none"
                          [] outcome = "start_false" -> "return"
                          [] OTHER -> "except"
    /\ UNCHANGED <<stream_sid, websocket, peerGone, finishCount, sinkFrames,
                   received, transcripts, tasks, out, running, pendingEarly>>
    /\ Track

\* LoopStep with an else branch that rejects every other event.
LoopStepStrict(msg, sendOk) ==
    IF ~msg.json THEN "raise"
    ELSE IF msg.event = Absent THEN "raise"
    ELSE IF msg.event = "start"
         THEN IF msg.streamSid = Absent THEN "raise" ELSE "next"
    ELSE IF msg.event = "media"
         THEN IF msg.payload = Absent \/ ~sendOk THEN "raise" ELSE "next"
    ELSE IF msg.event = "stop" THEN "break"
    ELSE "raise"

\* What one pass of the while body does with the text msg (lines 326-340):
\* "raise" for an exception, "break" for stop, "next" to read again.
LoopStep(msg, sendOk) ==
    IF ~msg.json THEN "raise"                                 \* json.loads
    ELSE IF msg.event = Absent THEN "raise"                   \* data['event']
    ELSE IF msg.event = "start"
         THEN IF msg.streamSid = Absent THEN "raise" ELSE "next"
    ELSE IF msg.event = "media"
         THEN IF msg.payload = Absent \/ ~sendOk THEN "raise" ELSE "next"
    ELSE IF msg.event = "stop" THEN "break"
    ELSE "next"

\* StoreSid with the assignment of line 330 lost.
StoreSidDropped(msg, sid) == sid

\* Lines 328-330: the start branch stores the envelope's streamSid.
StoreSid(msg, sid) == IF msg.event = "start" THEN msg.streamSid ELSE sid

Receive(msg, sendOk) ==
    /\ hpc = "loop"
    /\ LoopFree
    /\ ~peerGone
    /\ Len(received) < MaxInbound
    /\ received' = Append(received, msg)
    /\ stream_sid' = IF LoopStep(msg, sendOk) = "next"
                     THEN StoreSid(msg, stream_sid) ELSE stream_sid
    /\ sinkFrames' = IF LoopStep(msg, sendOk) = "next" /\ msg.event = "media"
                     THEN sinkFrames + 1 ELSE sinkFrames
    /\ hpc' = IF LoopStep(msg, sendOk) = "next" THEN "loop" ELSE "finally"
    /\ exitPath' = CASE LoopStep(msg, sendOk) = "next" -> "none"
                     [] LoopStep(msg, sendOk) = "break" -> "break"
                     [] OTHER -> "except"
    /\ UNCHANGED <<websocket, peerGone, dg_connection, finishCount,
                   transcripts, tasks, out, running, pendingEarly>>
    /\ Track

\* receive_text() raises WebSocketDisconnect once the peer has gone.
ReceiveDisconnect ==
    /\ hpc = "loop"
    /\ LoopFree
    /\ peerGone
    /\ hpc' = "finally"
    /\ exitPath' = "except"
    /\ UNCHANGED <<stream_sid, websocket, peerGone, dg_connection, finishCount,
                   sinkFrames, received, transcripts, tasks, out, running, pendingEarly>>
    /\ Track

\* The peer drops the connection (a forced close).
PeerDisconnect ==
    /\ ~peerGone
    /\ hpc \in {"loop", "finally"}
    /\ peerGone' = TRUE
    /\ UNCHANGED <<hpc, exitPath, stream_sid, websocket, dg_connection, finishCount,
                   sinkFrames, received, trans, transcripts, tasks, out, running, pendingEarly>>

\* dg_connection.finish() of line 347: the name is unbound when the client
\* was never created.
FinishRaises(dg) == dg = "unbound"

\* Lines 345-348: await websocket.close(), then dg_connection.finish().
\* close() can raise only once the peer has gone; a raise in the finally
\* block leaves the handler at once.
Finally(closeRaises) ==
    /\ hpc = "finally"
    /\ LoopFree
    /\ closeRaises => peerGone
    /\ IF closeRaises
       THEN /\ hpc' = "raised"
            /\ UNCHANGED <<websocket, dg_connection, finishCount>>
       ELSE /\ websocket' = "closed"
            /\ IF FinishRaises(dg_connection)
               THEN /\ hpc' = "raised"
                    /\ UNCHANGED <<dg_connection, finishCount>>
               ELSE /\ hpc' = "returned"
                    /\ dg_connection' = "finished"
                    /\ finishCount' = finishCount + 1
    /\ UNCHANGED <<exitPath, stream_sid, peerGone, sinkFrames, received, transcripts,
                   tasks, out, running, pendingEarly>>
    /\ Track

\* ------------------------------------------------------------- on_message
\* Schedules with the length test of line 303 left out.
SchedulesAlways(sentence) == TRUE

\* Lines 301-305, called by the sink on its own thread for each transcript.
Schedules(sentence) == Len(sentence) > 0

\* The coroutine object of line 305.
NewTask(sentence) ==
    [phase |-> IF Schedules(sentence) THEN "scheduled" ELSE "none",
     raw |-> NoAudio, len |-> 0, i |-> 0, sleeps |-> 0]

on_message(sentence) ==
    /\ dg_connection = "started"
    /\ Len(transcripts) < MaxTranscripts
    /\ transcripts' = Append(transcripts, sentence)
    /\ tasks' = Append(tasks, NewTask(sentence))
    /\ pendingEarly' = IF Schedules(sentence) /\ stream_sid = None
                       THEN pendingEarly \cup {Len(tasks) + 1} ELSE pendingEarly
    /\ UNCHANGED <<hpc, exitPath, stream_sid, websocket, peerGone, dg_connection, finishCount,
                   sinkFrames, received, trans, out, running>>

\* ------------------------------------------------------ process_and_reply
Falsy(s) == s = None \/ s = ""

\* Lines 212-221: the coroutine starts; with a stream_sid it enters the
\* synchronous text-generation call.
Begin(k) ==
    /\ k \in DOMAIN tasks
    /\ tasks[k].phase = "scheduled"
    /\ LoopFree
    /\ IF Falsy(stream_sid)
       THEN /\ tasks' = [tasks EXCEPT ![k].phase = "no_sid"]
            /\ UNCHANGED running
       ELSE /\ tasks' = [tasks EXCEPT ![k].phase = "generating"]
            /\ running' = k
    /\ pendingEarly' = pendingEarly \ {k}
    /\ UNCHANGED <<hpc, exitPath, stream_sid, websocket, peerGone, dg_connection, finishCount,
                   sinkFrames, received, trans, transcripts, out>>

\* Lines 221-246: the text-generation call returns or raises; on success
\* the coroutine goes straight into the synchronous synthesis call.
GroqReturns(k, ok) ==
    /\ k \in DOMAIN tasks
    /\ tasks[k].phase = "generating"
    /\ running = k
    /\ IF ok
       THEN /\ tasks' = [tasks EXCEPT ![k].phase = "synthesizing"]
            /\ UNCHANGED running
       ELSE /\ tasks' = [tasks EXCEPT ![k].phase = "groq_error"]
            /\ running' = 0
    /\ UNCHANGED <<hpc, exitPath, stream_sid, websocket, peerGone, dg_connection, finishCount,
                   sinkFrames, received, trans, transcripts, out, pendingEarly>>

Max(a, b) == IF a > b THEN a ELSE b
Min(a, b) == IF a < b THEN a ELSE b

\* Lines 257-258: the header strip.
Strip(buf) == IF buf.riff THEN Max(buf.len - RiffHeader, 0) ELSE buf.len

\* ChunkLen with the slice taken to be a full chunk_size every time.
ChunkLenFull(len, i) == chunk_size

\* Line 264: len(audio_data[i:i+chunk_size]).
ChunkLen(len, i) == Min(chunk_size, len - i)

\* websocket.send_text raises once the connection is closed or the peer gone.
Writable == websocket = "open" /\ ~peerGone

MediaMsg(k, t) ==
    [reply |-> k, event |-> "media", streamSid |-> stream_sid,
     bytes |-> ChunkLen(t.len, t.i), offset |-> t.i, sleeps |-> t.sleeps]

MarkMsg(k, t) ==
    [reply |-> k, event |-> "mark", streamSid |-> stream_sid,
     bytes |-> 0, offset |-> t.i, sleeps |-> t.sleeps]

\* Resume with a coroutine that hangs where the mark is due.
ResumeStalls(k, t) ==
    IF ~Writable
    THEN /\ tasks' = [tasks EXCEPT ![k] = [t EXCEPT !.phase = "send_error"]]
         /\ UNCHANGED out
    ELSE IF t.i < t.len
    THEN /\ out' = Append(out, MediaMsg(k, t))
         /\ tasks' = [tasks EXCEPT ![k] = [t EXCEPT !.phase = "sleeping"]]
    ELSE UNCHANGED <<tasks, out>>

\* Lines 263-288 from the position i of task t up to its next suspension:
\* the next chunk is sent and the coroutine sleeps, or the range is
\* exhausted and the mark is sent.
Resume(k, t) ==
    IF ~Writable
    THEN /\ tasks' = [tasks EXCEPT ![k] = [t EXCEPT !.phase = "send_error"]]
         /\ UNCHANGED out
    ELSE IF t.i < t.len
    THEN /\ out' = Append(out, MediaMsg(k, t))
         /\ tasks' = [tasks EXCEPT ![k] = [t EXCEPT !.phase = "sleeping"]]
    ELSE /\ out' = Append(out, MarkMsg(k, t))
         /\ tasks' = [tasks EXCEPT ![k] = [t EXCEPT !.phase = "played"]]

\* SpeakOutcome with a failed synthesis taken for audio.
SpeakOutcomeNoCatch(res) == IF res.len = 0 THEN "silent" ELSE "play"

\* Lines 246-255 and 292: the synthesis call raised (except branch), gave
\* nothing (`if audio_data:` is false) or gave bytes to play.
SpeakOutcome(res) ==
    IF res = SynthFail THEN "tts_error"
    ELSE IF res.len = 0 THEN "silent"
    ELSE "play"

\* Lines 246-275: the synthesis call returns res or raises (SynthFail).
SpeakReturns(k, res) ==
    /\ k \in DOMAIN tasks
    /\ tasks[k].phase = "synthesizing"
    /\ running = k
    /\ running' = 0
    /\ IF SpeakOutcome(res) = "play"
       THEN Resume(k, [tasks[k] EXCEPT !.raw = res, !.len = Strip(res), !.i = 0])
       ELSE /\ tasks' = [tasks EXCEPT ![k].phase = SpeakOutcome(res), ![k].raw = res]
            /\ UNCHANGED out
    /\ UNCHANGED <<hpc, exitPath, stream_sid, websocket, peerGone, dg_connection, finishCount,
                   sinkFrames, received, trans, transcripts, pendingEarly>>

\* AdvanceChunk with the asyncio.sleep of line 278 left out.
AdvanceNoSleep(t) == [t EXCEPT !.i = @ + chunk_size]

\* Lines 263 and 278: one asyncio.sleep(0.020) has elapsed and the for loop
\* moves on by chunk_size.
AdvanceChunk(t) == [t EXCEPT !.i = @ + chunk_size, !.sleeps = @ + 1]

\* The sleeping coroutine is resumed by the event loop.
Wake(k) ==
    /\ k \in DOMAIN tasks
    /\ tasks[k].phase = "sleeping"
    /\ LoopFree
    /\ Resume(k, AdvanceChunk(tasks[k]))
    /\ UNCHANGED <<hpc, exitPath, stream_sid, websocket, peerGone, dg_connection, finishCount,
                   sinkFrames, received, trans, transcripts, running, pendingEarly>>

Next ==
    \/ OpenSink
    \/ \E msg \in Envelopes, sendOk \in BOOLEAN : Receive(msg, sendOk)
    \/ ReceiveDisconnect
    \/ PeerDisconnect
    \/ \E closeRaises \in BOOLEAN : Finally(closeRaises)
    \/ \E sentence \in Sentences : on_message(sentence)
    \/ \E k \in 1..MaxTranscripts : Begin(k)
    \/ \E k \in 1..MaxTranscripts, ok \in BOOLEAN : GroqReturns(k, ok)
    \/ \E k \in 1..MaxTranscripts, res \in AudioBuffers \cup {SynthFail} : SpeakReturns(k, res)
    \/ \E k \in 1..MaxTranscripts : Wake(k)

Spec == Init /\ [][Next]_vars

\* The event loop resumes every coroutine whose sleep has elapsed, and the
\* two synchronous client calls come back (with a result or an exception).
Fairness ==
    \A k \in 1..MaxTranscripts :
        /\ WF_vars(Wake(k))
        /\ WF_vars(\E ok \in BOOLEAN : GroqReturns(k, ok))
        /\ WF_vars(\E res \in AudioBuffers \cup {SynthFail} : SpeakReturns(k, res))

\* The fair behaviours are explored with sessions of up to LiveInbound
\* envelopes.
LiveNext ==
    \/ OpenSink
    \/ \E msg \in Envelopes, sendOk \in BOOLEAN :
          Len(received) < LiveInbound /\ Receive(msg, sendOk)
    \/ ReceiveDisconnect
    \/ PeerDisconnect
    \/ \E closeRaises \in BOOLEAN : Finally(closeRaises)
    \/ \E sentence \in Sentences : on_message(sentence)
    \/ \E k \in 1..MaxTranscripts : Begin(k)
    \/ \E k \in 1..MaxTranscripts, ok \in BOOLEAN : GroqReturns(k, ok)
    \/ \E k \in 1..MaxTranscripts, res \in AudioBuffers \cup {SynthFail} : SpeakReturns(k, res)
    \/ \E k \in 1..MaxTranscripts : Wake(k)

LiveSpec == Init /\ [][LiveNext]_vars /\ Fairness

\* ------------------------------------------------------------------ claims
Handled == hpc \in {"returned", "raised"}

IsStart(e) == e.json /\ e.event = "start" /\ e.streamSid # Absent

\* start, then zero or more media, then stop
StartMediaStop(seq) ==
    /\ Len(seq) >= 2
    /\ IsStart(seq[1])
    /\ seq[Len(seq)] = StopEnv
    /\ \A n \in 2..(Len(seq) - 1) : seq[n] = MediaEnv

C2_SinkClosedOnceOnEveryExit ==
    (Handled /\ dg_connection \in {"started", "finished"}) => finishCount = 1

\* A reply pipeline that has begun and not yet ended, and the three phases
\* it can be in.
InFlight(t) == t.phase \in {"generating", "synthesizing", "sleeping"}

\* C3: whenever a reply pipeline is in one of its phases and the ingestion
\* loop is waiting for the next envelope of a live connection, the loop can
\* take a media envelope and forward it to the sink at once.
C3_IngestionNeverStalled ==
    \A k \in DOMAIN tasks :
        (InFlight(tasks[k]) /\ hpc = "loop" /\ ~peerGone /\ Len(received) < MaxInbound)
            => ENABLED Receive(MediaEnv, TRUE)

\* C4: at most one reply pipeline is in flight at any time.
C4_OneReplyInFlight ==
    \A j, k \in DOMAIN tasks : (InFlight(tasks[j]) /\ InFlight(tasks[k])) => j = k

\* C5: between two envelopes of one reply no envelope of another reply is
\* written to the websocket.
C5_SingleWriter ==
    \A a, b, c \in DOMAIN out :
        (a < b /\ b < c /\ out[a].reply = out[c].reply) => out[b].reply = out[a].reply

\* The envelopes that reply k has written, in order.
Written(k) == SelectSeq(out, LAMBDA m : m.reply = k)

CeilDiv(n, d) == (n + d - 1) \div d

\* The audio left of a synthesized buffer once a RIFF header is removed.
Playable(buf) == IF buf.riff /\ buf.len >= RiffHeader THEN buf.len - RiffHeader
                 ELSE IF buf.riff THEN 0 ELSE buf.len

\* The first n envelopes of w are the first n chunks of L bytes, in order.
ChunksInOrder(w, n, L) ==
    \A j \in 1..n :
        /\ w[j].event = "media"
        /\ w[j].offset = (j - 1) * 160
        /\ w[j].bytes = (IF j * 160 <= L THEN 160 ELSE L - (j - 1) * 160)
        /\ w[j].bytes \in 1..160

C7_OneSleepBetweenChunks ==
    \A k \in DOMAIN tasks :
        LET w == Written(k)
        IN \A j \in 2..Len(w) :
              /\ w[j - 1].event = "media"
              /\ w[j].event = "media" => w[j].sleeps = w[j - 1].sleeps + 1
              /\ w[j].event = "mark" => w[j].sleeps >= (j - 1) - 1

C7_Witness ==
    \E k \in DOMAIN tasks :
        /\ tasks[k].phase = "played"
        /\ Len(Written(k)) = 4
        /\ Written(k)[3].sleeps = 2

Malformed(e) == ~e.json \/ e.event = Absent

\* C8: a malformed envelope read while ACTIVE leaves the session ACTIVE with
\* the loop reading on, the connection and the sink open.
C8_MalformedIgnored ==
    (received # <<>> /\ Malformed(Last(received)) /\ stream_sid # None) =>
        /\ SessionState = "ACTIVE"
        /\ websocket = "open"
        /\ dg_connection = "started"

\* C9: an exception raised inside the ingestion loop while ACTIVE closes the
\* session, and when the handler is through the connection and the sink are
\* both closed.
C9_FaultIsImplicitStop ==
    (exitPath = "except" /\ stream_sid # None) =>
        /\ SessionState = "CLOSED"
        /\ Handled => (websocket = "closed" /\ dg_connection = "finished")

\* C10: a stop envelope read while AWAITING_START leaves the session in
\* AWAITING_START with the loop reading on, the connection and the sink open.
C10_StopBeforeStartIgnored ==
    (received # <<>> /\ Last(received) = StopEnv /\ stream_sid = None) =>
        /\ SessionState = "AWAITING_START"
        /\ websocket = "open"
        /\ dg_connection = "started"

\* C11: no audio frame has been passed to the sink as long as no start
\* envelope has been read.
C11_NoAudioBeforeStart == stream_sid = None => sinkFrames = 0

\* The step makes reply k try a send_text.
WriteAttempt(k) ==
    /\ tasks[k].phase \in {"synthesizing", "sleeping"}
    /\ tasks'[k].phase \in {"sleeping", "played", "send_error"}
    /\ tasks'[k] # tasks[k]

\* C12: once the session is CLOSED no transcript schedules a reply pipeline
\* that will pass the stream_sid test of line 214, and once the connection
\* is closed no reply pipeline tries another write.
C12_ClosedIsQuiescent ==
    [][SessionState = "CLOSED" =>
          /\ Len(tasks') > Len(tasks) =>
                (Last(tasks').phase = "none" \/ Falsy(stream_sid))
          /\ websocket = "closed" => \A k \in DOMAIN tasks : ~WriteAttempt(k)]_vars

\* C13: whenever the handler is through, it has returned normally with the
\* connection and the sink closed.
C13_NoExceptionEscapes ==
    Handled => (hpc = "returned" /\ websocket = "closed" /\ dg_connection = "finished")

\* The text-generation call or the synthesis call of reply k failed.
ReplyFailed(k) == tasks[k].phase = "groq_error" \/ tasks[k].raw = SynthFail

\* C14: a reply whose text-generation or synthesis call failed ends in the
\* matching except branch, has written no envelope and does not hold the
\* event loop; the step in which the call fails leaves the handler, the
\* stream_sid, the connection and the sink as they were; and a coroutine
\* scheduled for a later transcript can still begin its text generation.
C14_FailedTurnIsSkipped ==
    /\ [](\A k \in DOMAIN tasks :
            ReplyFailed(k) =>
              /\ tasks[k].phase \in {"groq_error", "tts_error"}
              /\ Written(k) = <<>>
              /\ running # k
              /\ \A j \in DOMAIN tasks :
                    (j > k /\ tasks[j].phase = "scheduled" /\ LoopFree)
                        => ENABLED (Begin(j) /\ tasks'[j].phase = "generating"))
    /\ [][\A k \in DOMAIN tasks :
            (~ReplyFailed(k) /\ ReplyFailed(k)') =>
                UNCHANGED <<hpc, exitPath, stream_sid, websocket, dg_connection,
                            finishCount, out>>]_vars

\* Reply 1 failed in synthesis while the session was ACTIVE and reply 2 has
\* been played after it.
C14_Witness ==
    /\ Len(tasks) = 2
    /\ tasks[1].phase = "tts_error"
    /\ tasks[2].phase = "played"
    /\ SessionState = "ACTIVE"
    /\ websocket = "open"
    /\ dg_connection = "started"

\* C15: a transcript with empty text has no coroutine: nothing of it is
\* scheduled, running or written, whatever the session state.
C15_EmptyTranscriptSchedulesNothing ==
    \A k \in DOMAIN transcripts :
        transcripts[k] = "" =>
            /\ tasks[k].phase = "none"
            /\ Written(k) = <<>>
            /\ running # k
            /\ k \notin pendingEarly

\* An empty transcript was delivered while ACTIVE, and the non-empty one
\* after it has been played.
C15_Witness ==
    /\ transcripts = <<"", "hello">>
    /\ stream_sid # None
    /\ tasks[1].phase = "none"
    /\ tasks[2].phase = "played"

PhaseOf(k) == IF k \in DOMAIN tasks THEN tasks[k].phase ELSE "none"

\* C16: under fair scheduling a reply that is between two chunks of its
\* playout ends with its mark written or with the failure of a send_text
\* recorded, and a send_text fails only when the connection is no longer
\* open: a playout on a connection that stays open reaches its mark.
C16_PlayoutEnds ==
    /\ \A k \in 1..MaxTranscripts :
          (PhaseOf(k) = "sleeping") ~> (PhaseOf(k) \in {"played", "send_error"})
    /\ [][\A k \in DOMAIN tasks :
            (tasks[k].phase # "send_error" /\ tasks'[k].phase = "send_error")
                => ~Writable]_vars

\* A stop envelope arrived in the middle of a playout, whose next send_text
\* then failed.
C16_Witness ==
    \E k \in DOMAIN tasks :
        /\ tasks[k].phase = "send_error"
        /\ Len(Written(k)) >= 1
        /\ exitPath = "break"
        /\ ~peerGone

\* C17: all envelopes of one reply carry the same streamSid.
C17_OneStreamSidPerReply ==
    \A a, b \in DOMAIN out :
        out[a].reply = out[b].reply => out[a].streamSid = out[b].streamSid

\* C18: every mark written is preceded by a media envelope of its reply.
C18_MarkFollowsMedia ==
    \A a \in DOMAIN out :
        out[a].event = "mark" =>
            \E b \in 1..(a - 1) : out[b].reply = out[a].reply /\ out[b].event = "media"

\* A well-formed envelope tagged neither start nor media nor stop.
OtherEvent(e) == e.json /\ e.event \notin {Absent, "start", "media", "stop"}

\* C19: the step that reads a well-formed envelope of another event tag
\* leaves the handler in the loop and changes neither stream_sid nor the
\* session state, and nothing is sent to the sink or to the connection.
C19_OtherEventChangesNothing ==
    [][(Len(received') = Len(received) + 1 /\ OtherEvent(Last(received'))) =>
          /\ hpc' = "loop"
          /\ SessionState' = SessionState
          /\ UNCHANGED <<stream_sid, sinkFrames, out, tasks, websocket,
                         dg_connection, exitPath, trans>>]_vars

\* A mark envelope was read while ACTIVE, and the loop has read and
\* forwarded a media envelope after it.
C19_Witness ==
    /\ received = <<StartEnv("MZ1"), MarkEnv, MediaEnv>>
    /\ sinkFrames = 1
    /\ hpc = "loop"

\* C20: the coroutine of a transcript delivered before any start envelope
\* never gets past the stream_sid test: it makes no text-generation call.
C20_EarlyTranscriptIsDropped ==
    [][\A k \in pendingEarly : tasks'[k].phase \in {"scheduled", "no_sid"}]_vars
====
